---- MODULE Spec2Model ----
(***************************************************************************)
(* The scan and fix websocket handlers of app.py, the ConnectionManager    *)
(* and the Slack senders of utils.py.                                      *)
(*                                                                         *)
(* One coroutine per session.  Code between two awaits runs without any    *)
(* other coroutine of the process being scheduled: `running` names the     *)
(* coroutine that holds the event loop, and is released at every await     *)
(* (websocket send / receive, the aiohttp post).  subprocess.run and the   *)
(* docker / PyGithub / aider calls are plain blocking calls: they keep the *)
(* loop.  External calls are opaque: each one either returns or raises,    *)
(* chosen nondeterministically.  The client may close its side of the      *)
(* connection at any moment; from then on receive_json and send_json raise.*)
(***************************************************************************)
EXTENDS Integers, Sequences, FiniteSets, TLC

\* ---------------------------------------------------------------- bounds
MaxRequests == 2
MaxFindings == 2

Sessions == {"s1", "s2"}
NoSession == "none"
Findings == {"f1", "f2"}
ExitCodes == {0, 1, 2}
Endpoints == {"scan", "fix"}

\* ------------------------------------------------------- request contents
None == "None"
RepoUrl == "https://github.com/o/r.git"
Token == "tok"
Hook == "https://hooks.slack/x"
Vuln == "B307 eval"
FilePath == "a.py"

Truthy(x) == x \notin {None, ""}

ScanRequests ==
  [shape : {"object"}, repo_url : {None, "", RepoUrl}, github_token : {None, Token},
   vulnerability : {None}, file_path : {None},
   slack_webhook_url : {None, "", Hook}]

FixRequests ==
  [shape : {"object"}, repo_url : {None, "", RepoUrl}, github_token : {None, Token},
   vulnerability : {None, Vuln}, file_path : {None, FilePath},
   slack_webhook_url : {None, "", Hook}]

\* a frame whose JSON is valid but not an object: data.get raises AttributeError
NonObject ==
  [shape |-> "list", repo_url |-> None, github_token |-> None, vulnerability |-> None,
   file_path |-> None, slack_webhook_url |-> None]

NoData == [NonObject EXCEPT !.shape = "none"]

\* --------------------------------------------------- values of the locals
Unbound == <<>>
Exc(t, m) == [type |-> t, msg |-> m]
NoExc == Exc("", "")
Str(e) == e.msg
TypeName(e) == e.type

\* text captured from the scanner container, by what json.loads makes of it
LogTexts ==
  {[json |-> "invalid", hasResults |-> FALSE, results |-> <<>>],
   [json |-> "list", hasResults |-> FALSE, results |-> <<>>],
   [json |-> "object", hasResults |-> FALSE, results |-> <<>>]}
  \cup {[json |-> "object", hasResults |-> TRUE, results |-> r] :
          r \in UNION {[1..n -> Findings] : n \in 0..MaxFindings}}
NoLogs == [json |-> "unset", hasResults |-> FALSE, results |-> <<>>]

CloneStderr == "fatal: repository not found"
PushStderr == "remote: permission denied"
\* html_url of the pull request returned by the n-th create_pull call of an invocation
PrUrl(n) == <<"https://github.com/o/r/pull/", n>>

\* ---------------------------------------------------------------- messages
Msg(st, m, d) == [status |-> st, message |-> m, data |-> d]

MissingParamsMsg == Msg("error", <<"Missing required parameters">>, <<>>)
InitScanMsg == Msg("progress", <<"Initializing scan...">>, <<>>)
CloningMsg == Msg("progress", <<"Cloning repository...">>, <<>>)
CloneFailedMsg == Msg("error", <<"Repository clone failed">>, <<"error", CloneStderr>>)
\* the scan announced with the text of the clone
RunningScanMsgAsCloning == Msg("progress", <<"Cloning repository...">>, <<>>)
RunningScanMsg == Msg("progress", <<"Running security scan...">>, <<>>)
BanditFailedMsg(logs) ==
  Msg("error", <<"Bandit scan failed: ", logs>>, <<"error_type", "BanditError">>)
\* the parse failure reported without the captured output
ParseFailedMsgNoLogs(logs) ==
  Msg("error", <<"Failed to parse scan results">>, <<"error_type", "JSONDecodeError">>)
ParseFailedMsg(logs) == Msg("error", <<"Failed to parse scan results">>, <<"error", logs>>)
ScanSuccessMsg(vulns) ==
  Msg("success", <<"Scan completed successfully">>, <<"vulnerabilities", vulns>>)
SlackProgressMsg == Msg("progress", <<"Sending Slack notification...">>, <<>>)
ScanSlackFailedMsg(e) ==
  Msg("error", <<"Failed to send Slack notification: ", Str(e)>>, <<"error_type", TypeName(e)>>)
ExceptionMsg(e) == Msg("error", <<Str(e)>>, <<"error_type", TypeName(e)>>)

InitGithubMsg == Msg("progress", <<"Initializing GitHub connection...">>, <<>>)
CreatingBranchMsg == Msg("progress", <<"Creating fix branch...">>, <<>>)
PushFailedMsg(stderr) == Msg("error", <<"Failed to push changes">>, <<"error", stderr>>)
CreatingPrMsg == Msg("progress", <<"Creating pull request...">>, <<>>)
\* the notification failure reported with status error
FixSlackFailedMsgAsError(e) ==
  Msg("error", <<"PR created but Slack notification failed: ", Str(e)>>, <<>>)
FixSlackFailedMsg(e) ==
  Msg("warning", <<"PR created but Slack notification failed: ", Str(e)>>, <<>>)
FixSuccessMsg(url) ==
  Msg("success", <<"Pull request created successfully">>, <<"pr_url", url>>)

\* -------------------------------------------------------------- exceptions
\* what send_json raises once the client side is closed
SendErrors == {Exc("WebSocketDisconnect", "1006"), Exc("RuntimeError", "send after close")}
AttributeError == Exc("AttributeError", "'NoneType' object has no attribute")
DockerError == Exc("DockerException", "docker daemon error")
GithubError == Exc("GithubException", "api error")
CalledProcessError == Exc("CalledProcessError", "Command returned non-zero exit status 1.")
AgentError == Exc("Exception", "aider failed")
SlackError == Exc("ValueError", "Failed to send Slack notification")

\* ------------------------------------------------------------------ state
VARIABLES
  active_connections,  \* ConnectionManager.active_connections
  connected,           \* the client's side of each websocket is open
  endpoint,            \* which handler serves the session
  pc,                  \* position of each handler coroutine
  data,                \* the request being served
  reqNo,               \* requests received so far on the session
  frame,               \* locals of the handler coroutine
  sent,                \* messages sent on the websocket for the current request
  hist,                \* what the current invocation has done so far
  workspaces,          \* temporary directories that exist
  containers,          \* containers that exist
  image,               \* workspace the tag custom-bandit:latest was built from
  running              \* coroutine holding the event loop

vars == <<active_connections, connected, endpoint, pc, data, reqNo, frame, sent, hist,
          workspaces, containers, image, running>>

NoFrame ==
  [client |-> FALSE, container |-> Unbound, temp_dir |-> Unbound, exit_status |-> <<>>,
   logs |-> NoLogs, scan_results |-> <<>>, i |-> 0, pr |-> <<>>, exc |-> NoExc,
   pending |-> "continue"]

NoHist ==
  [ws |-> FALSE, built |-> FALSE, started |-> FALSE, ranImage |-> Unbound,
   ran |-> {}, failed |-> {}, prCalls |-> 0, slackCalls |-> 0,
   removeCalls |-> {}, imageRemoved |-> FALSE]

\* the state after ConnectionManager() with the clients in `clients` about to connect
InitWith(clients) ==
  /\ active_connections = {}
  /\ connected = [s \in Sessions |-> s \in clients]
  /\ endpoint = [s \in Sessions |-> "none"]
  /\ pc = [s \in Sessions |-> "idle"]
  /\ data = [s \in Sessions |-> NoData]
  /\ reqNo = [s \in Sessions |-> 0]
  /\ frame = [s \in Sessions |-> NoFrame]
  /\ sent = [s \in Sessions |-> <<>>]
  /\ hist = [s \in Sessions |-> NoHist]
  /\ workspaces = {}
  /\ containers = {}
  /\ image = Unbound
  /\ running = NoSession

Init == InitWith({"s1"})

\* ---------------------------------------------------------------- helpers
Upd(f, s, v) == [f EXCEPT ![s] = v]
Free(s) == running \in {NoSession, s}
Ran(h, stage) == [h EXCEPT !.ran = @ \cup {stage}]
Failed(h, stage) == [h EXCEPT !.ran = @ \cup {stage}, !.failed = @ \cup {stage}]
Raise(f, e) == [f EXCEPT !.exc = e]

\* every connection of the registry receives what one handler sends
SendTargetsBroadcast(websocket, registry) == registry \cup {websocket}

\* utils.py 30-31: send_message sends on the websocket it is given and on no other
SendTargets(websocket, registry) == {websocket}

\* the message as it goes out on a connection, with the handler that produced it
Sent(m, s) == [status |-> m.status, message |-> m.message, data |-> m.data, origin |-> s]

\* the handler of session s moves to p with locals f, sent messages m (sent[s],
\* or sent[s] and the message it sends now), history h
Step(s, p, f, m, h, release) ==
  /\ pc' = Upd(pc, s, p)
  /\ frame' = Upd(frame, s, f)
  /\ sent' = [t \in Sessions |->
                IF Len(m) > Len(sent[s]) /\ t \in SendTargets(s, active_connections)
                THEN Append(sent[t], Sent(m[Len(m)], s))
                ELSE sent[t]]
  /\ hist' = Upd(hist, s, h)
  /\ running' = IF release THEN NoSession ELSE s

\* tempfile.TemporaryDirectory: __enter__ creates the directory, __exit__ removes it
EnterWith(dirs, d) == dirs \cup {d}
\* the directory outlives the with block
ExitWithLeak(dirs, d) == dirs
ExitWith(dirs, d) == dirs \ {d}

\* manager.send_message inside the try block, at its end the coroutine awaits:
\* the message goes out, or send_json raises and control goes to `except Exception`
SendInTry(s, m, p, f, h, dirsOk, dirsRaise) ==
  \/ /\ connected[s]
     /\ Step(s, p, f, Append(sent[s], m), h, TRUE)
     /\ workspaces' = dirsOk
  \/ /\ ~connected[s]
     /\ \E e \in SendErrors :
          Step(s, "except", Raise(f, e), sent[s], Failed(h, "send"), TRUE)
     /\ workspaces' = dirsRaise

\* an exception leaves the `while True` loop: `except WebSocketDisconnect` removes
\* the connection from the registry, any other exception leaves the handler
Escape(s, e) ==
  /\ pc' = Upd(pc, s, IF TypeName(e) = "WebSocketDisconnect" THEN "closed" ELSE "crashed")
  /\ active_connections' =
       IF TypeName(e) = "WebSocketDisconnect" THEN active_connections \ {s}
       ELSE active_connections
  /\ running' = NoSession

\* ------------------------------------------------------------ connections
Connect(s) ==
  /\ pc[s] = "idle" /\ connected[s] /\ Free(s)
  /\ \E ep \in Endpoints : endpoint' = Upd(endpoint, s, ep)
  /\ active_connections' = active_connections \cup {s}
  /\ pc' = Upd(pc, s, "receive")
  /\ running' = NoSession
  /\ UNCHANGED <<connected, data, reqNo, frame, sent, hist, workspaces, containers, image>>

ClientDisconnect(s) ==
  /\ connected[s] /\ pc[s] \notin {"idle", "closed", "crashed"}
  /\ connected' = Upd(connected, s, FALSE)
  /\ UNCHANGED <<active_connections, endpoint, pc, data, reqNo, frame, sent, hist,
                 workspaces, containers, image, running>>

\* await websocket.receive_json() and the data.get lines after it
Receive(s, requests) ==
  /\ pc[s] = "receive" /\ Free(s)
  /\ \/ /\ ~connected[s]
        /\ Escape(s, Exc("WebSocketDisconnect", "1000"))
        /\ UNCHANGED <<data, reqNo, frame, sent, hist>>
     \/ /\ connected[s] /\ reqNo[s] < MaxRequests
        /\ \E d \in requests \cup {NonObject} :
             /\ data' = Upd(data, s, d)
             /\ reqNo' = Upd(reqNo, s, reqNo[s] + 1)
             /\ sent' = Upd(sent, s, <<>>)
             /\ hist' = Upd(hist, s, NoHist)
             /\ frame' = Upd(frame, s, [NoFrame EXCEPT !.client = frame[s].client,
                                                      !.container = frame[s].container])
             /\ IF d.shape # "object"
                THEN Escape(s, AttributeError)
                ELSE /\ pc' = Upd(pc, s, "validate")
                     /\ running' = s
                     /\ UNCHANGED active_connections
  /\ UNCHANGED <<connected, endpoint, workspaces, containers, image>>

\* ------------------------------------------------------------ scan handler
ScanMissing(d) == ~Truthy(d.repo_url) \/ ~Truthy(d.github_token)

ScanReceive(s) == endpoint[s] = "scan" /\ Receive(s, ScanRequests)

\* lines 33-45
ScanValidate(s) ==
  /\ endpoint[s] = "scan" /\ pc[s] = "validate" /\ Free(s)
  /\ IF ScanMissing(data[s])
     THEN \/ /\ connected[s]
             /\ Step(s, "receive", frame[s], Append(sent[s], MissingParamsMsg), hist[s], TRUE)
             /\ UNCHANGED <<active_connections, workspaces>>
          \/ /\ ~connected[s]
             /\ \E e \in SendErrors :
                  /\ Escape(s, e)
                  /\ frame' = Upd(frame, s, Raise(frame[s], e))
                  /\ hist' = Upd(hist, s, Failed(hist[s], "send"))
             /\ UNCHANGED <<sent, workspaces>>
     ELSE /\ SendInTry(s, InitScanMsg, "init", frame[s], hist[s], workspaces, workspaces)
          /\ UNCHANGED active_connections
  /\ UNCHANGED <<connected, endpoint, data, reqNo, containers, image>>

\* every call is awaited and gives the event loop to the other coroutines
GoAwaited(s, p, f, h) == Step(s, p, f, sent[s], h, TRUE)

\* the handler stays inside the try block and keeps the event loop
Go(s, p, f, h) == Step(s, p, f, sent[s], h, FALSE)

\* a call inside `with tempfile.TemporaryDirectory()` raises: the directory
\* is removed while the exception unwinds to `except Exception`
RaiseWithHist(s, e, h) ==
  /\ Go(s, "except", Raise(frame[s], e), h)
  /\ workspaces' = ExitWith(workspaces, frame[s].temp_dir)

RaiseInWith(s, e, stage) == RaiseWithHist(s, e, Failed(hist[s], stage))

Dir(s) == <<s, reqNo[s]>>

\* lines 48-55: docker.from_env(), the temporary directory, "Cloning repository..."
ScanInit(s) ==
  /\ endpoint[s] = "scan" /\ pc[s] = "init" /\ Free(s)
  /\ \/ /\ Go(s, "except", Raise(frame[s], DockerError), Failed(hist[s], "from_env"))
        /\ UNCHANGED workspaces
     \/ LET f == [frame[s] EXCEPT !.client = TRUE, !.temp_dir = Dir(s)]
            h == [Ran(hist[s], "from_env") EXCEPT !.ws = TRUE]
        IN SendInTry(s, CloningMsg, "clone", f, h, EnterWith(workspaces, Dir(s)),
                     ExitWith(EnterWith(workspaces, Dir(s)), Dir(s)))
  /\ UNCHANGED <<active_connections, connected, endpoint, data, reqNo, containers, image>>

\* lines 57-75: git clone, then "Repository clone failed" and continue, or
\* "Running security scan..."
ScanClone(s) ==
  /\ endpoint[s] = "scan" /\ pc[s] = "clone" /\ Free(s)
  /\ \E returncode \in {0, 128} :
       IF returncode # 0
       THEN SendInTry(s, CloneFailedMsg, "finally", [frame[s] EXCEPT !.pending = "continue"],
                      Failed(hist[s], "clone"), workspaces,
                      ExitWith(workspaces, frame[s].temp_dir))
       ELSE SendInTry(s, RunningScanMsg, "build", frame[s], Ran(hist[s], "clone"),
                      workspaces, ExitWith(workspaces, frame[s].temp_dir))
  /\ UNCHANGED <<active_connections, connected, endpoint, data, reqNo, containers, image>>

\* lines 78-106: bandit.yaml, Dockerfile.bandit, client.images.build
ScanBuild(s) ==
  /\ endpoint[s] = "scan" /\ pc[s] = "build" /\ Free(s)
  /\ \/ /\ RaiseInWith(s, DockerError, "build")
        /\ UNCHANGED image
     \/ /\ Go(s, "run", frame[s], [Ran(hist[s], "build") EXCEPT !.built = TRUE])
        /\ image' = frame[s].temp_dir
        /\ UNCHANGED workspaces
  /\ UNCHANGED <<active_connections, connected, endpoint, data, reqNo, containers>>

\* lines 109-113: client.containers.run("custom-bandit:latest", detach=True)
ScanRun(s) ==
  /\ endpoint[s] = "scan" /\ pc[s] = "run" /\ Free(s)
  /\ \/ /\ RaiseInWith(s, DockerError, "run")
        /\ UNCHANGED containers
     \/ /\ image # Unbound
        /\ Go(s, "wait", [frame[s] EXCEPT !.container = Dir(s)],
              [Ran(hist[s], "run") EXCEPT !.started = TRUE, !.ranImage = image])
        /\ containers' = containers \cup {Dir(s)}
        /\ UNCHANGED workspaces
  /\ UNCHANGED <<active_connections, connected, endpoint, data, reqNo, image>>

\* line 116: container.wait()
ScanWait(s) ==
  /\ endpoint[s] = "scan" /\ pc[s] = "wait" /\ Free(s)
  /\ \/ RaiseInWith(s, DockerError, "wait")
     \/ /\ \E code \in ExitCodes :
             Go(s, "logs", [frame[s] EXCEPT !.exit_status = <<code>>], Ran(hist[s], "wait"))
        /\ UNCHANGED workspaces
  /\ UNCHANGED <<active_connections, connected, endpoint, data, reqNo, containers, image>>

\* line 119: container.logs().decode('utf-8'), the captured text being one of texts
ScanLogsFrom(s, texts) ==
  /\ endpoint[s] = "scan" /\ pc[s] = "logs" /\ Free(s)
  /\ \/ RaiseInWith(s, DockerError, "logs")
     \/ /\ \E text \in texts :
             Go(s, "check", [frame[s] EXCEPT !.logs = text], Ran(hist[s], "logs"))
        /\ UNCHANGED workspaces
  /\ UNCHANGED <<active_connections, connected, endpoint, data, reqNo, containers, image>>

\* no exit code taken for a failure
ScanCompletedAny(code) == TRUE

\* exit code 1 (findings present) taken for a failure
ScanCompletedZeroOnly(code) == code = 0

ScanLogs(s) == ScanLogsFrom(s, LogTexts)

\* line 121: exit_status['StatusCode'] not in [0, 1]
ScanCompleted(code) == code \in {0, 1}

\* lines 121-128
ScanCheck(s) ==
  /\ endpoint[s] = "scan" /\ pc[s] = "check" /\ Free(s)
  /\ IF ~ScanCompleted(frame[s].exit_status[1])
     THEN SendInTry(s, BanditFailedMsg(frame[s].logs), "finally",
                    [frame[s] EXCEPT !.pending = "continue"], Failed(hist[s], "scan"),
                    workspaces, ExitWith(workspaces, frame[s].temp_dir))
     ELSE /\ Go(s, "parse", frame[s], Ran(hist[s], "scan"))
          /\ UNCHANGED workspaces
  /\ UNCHANGED <<active_connections, connected, endpoint, data, reqNo, containers, image>>

\* json.loads(logs): raises JSONDecodeError on text that is not JSON
JsonValid(text) == text.json # "invalid"
JsonLoads(text) == [kind |-> text.json, hasResults |-> text.hasResults, results |-> text.results]
\* only the first item of the results reaches the caller
GetResultsFirst(value) ==
  IF value.hasResults /\ Len(value.results) > 0 THEN <<value.results[1]>> ELSE <<>>

\* scan_results.get("results", [])
GetResults(value) == IF value.hasResults THEN value.results ELSE <<>>

\* lines 130-145
ScanReport(s) ==
  /\ endpoint[s] = "scan" /\ pc[s] = "parse" /\ Free(s)
  /\ LET logs == frame[s].logs
         quit == ExitWith(workspaces, frame[s].temp_dir)
     IN IF ~JsonValid(logs)
        THEN SendInTry(s, ParseFailedMsg(logs), "finally",
                       [frame[s] EXCEPT !.pending = "continue"], Failed(hist[s], "parse"),
                       workspaces, quit)
        ELSE IF JsonLoads(logs).kind # "object"
        THEN RaiseInWith(s, AttributeError, "results")
        ELSE SendInTry(s, ScanSuccessMsg(GetResults(JsonLoads(logs))), "notify",
                       [frame[s] EXCEPT !.scan_results = <<JsonLoads(logs)>>],
                       Ran(hist[s], "parse"), workspaces, quit)
  /\ UNCHANGED <<active_connections, connected, endpoint, data, reqNo, containers, image>>

\* line 147: `if slack_webhook_url:`
ScanNotifies(d) == Truthy(d.slack_webhook_url)

\* lines 147-153: "Sending Slack notification..." when a webhook was given
ScanNotify(s) ==
  /\ endpoint[s] = "scan" /\ pc[s] = "notify" /\ Free(s)
  /\ IF ScanNotifies(data[s])
     THEN \/ /\ connected[s]
             /\ Step(s, "alert", [frame[s] EXCEPT !.i = 1], Append(sent[s], SlackProgressMsg),
                     hist[s], TRUE)
          \/ /\ ~connected[s]
             /\ \E e \in SendErrors :
                  Step(s, "except_slack", Raise(frame[s], e), sent[s],
                       Failed(hist[s], "send"), TRUE)
     ELSE Go(s, "finally", [frame[s] EXCEPT !.pending = "continue"], hist[s])
  /\ UNCHANGED <<active_connections, connected, endpoint, data, reqNo, workspaces,
                 containers, image>>

\* utils.py line 84: send_slack_scan_alert posts only `if webhook_url:`
ScanAlertPosts(webhook_url) == Truthy(webhook_url)

\* lines 155-156: one send_slack_scan_alert per item of the results, in order;
\* send_to_slack raises on a response other than 200
ScanAlert(s) ==
  /\ endpoint[s] = "scan" /\ pc[s] = "alert" /\ Free(s)
  /\ LET results == GetResults(frame[s].scan_results[1])
         i == frame[s].i
         h == [hist[s] EXCEPT !.slackCalls = @ + 1]
     IN IF i > Len(results)
        THEN Go(s, "finally", [frame[s] EXCEPT !.pending = "continue"], hist[s])
        ELSE IF ~ScanAlertPosts(data[s].slack_webhook_url)
        THEN Step(s, "alert", [frame[s] EXCEPT !.i = i + 1], sent[s], hist[s], TRUE)
        ELSE \/ Step(s, "alert", [frame[s] EXCEPT !.i = i + 1], sent[s], Ran(h, "slack"), TRUE)
             \/ Step(s, "except_slack", Raise(frame[s], SlackError), sent[s],
                     Failed(h, "slack"), TRUE)
  /\ UNCHANGED <<active_connections, connected, endpoint, data, reqNo, workspaces,
                 containers, image>>

\* lines 157-162: the notification step's own `except Exception`
ScanSlackExcept(s) ==
  /\ endpoint[s] = "scan" /\ pc[s] = "except_slack" /\ Free(s)
  /\ SendInTry(s, ScanSlackFailedMsg(frame[s].exc), "finally",
               [frame[s] EXCEPT !.pending = "continue"], hist[s], workspaces,
               ExitWith(workspaces, frame[s].temp_dir))
  /\ UNCHANGED <<active_connections, connected, endpoint, data, reqNo, containers, image>>

\* lines 164-169: `except Exception as e` sends str(e) and the exception's type
ScanExcept(s) ==
  /\ endpoint[s] = "scan" /\ pc[s] = "except" /\ Free(s)
  /\ \/ /\ connected[s]
        /\ Step(s, "finally", [frame[s] EXCEPT !.pending = "continue"],
                Append(sent[s], ExceptionMsg(frame[s].exc)), hist[s], TRUE)
     \/ /\ ~connected[s]
        /\ \E e \in SendErrors :
             Step(s, "finally", [frame[s] EXCEPT !.pending = "raise", !.exc = e], sent[s],
                  Failed(hist[s], "send"), TRUE)
  /\ UNCHANGED <<active_connections, connected, endpoint, data, reqNo, workspaces,
                 containers, image>>

\* line 173: container.remove(force=True) raises when the name `container` is not
\* bound (UnboundLocalError) or names a container that is already gone (NotFound)
ContainerRemoved(c, existing) == c # Unbound /\ c \in existing

\* the end of the with block, then lines 171-176: the image is removed only when
\* container.remove returned; then the next iteration, or the exception goes on
\* to lines 178-179
ScanCleanup(s) ==
  /\ endpoint[s] = "scan" /\ pc[s] = "finally" /\ Free(s)
  /\ LET c == frame[s].container
         removed == ContainerRemoved(c, containers)
     IN /\ workspaces' = ExitWith(workspaces, frame[s].temp_dir)
        /\ containers' = IF removed THEN containers \ {c} ELSE containers
        /\ image' = IF removed THEN Unbound ELSE image
        /\ hist' = Upd(hist, s, [hist[s] EXCEPT
                                   !.removeCalls = IF c # Unbound THEN {c} ELSE {},
                                   !.imageRemoved = removed])
  /\ IF frame[s].pending = "continue"
     THEN /\ pc' = Upd(pc, s, "receive")
          /\ running' = NoSession
          /\ UNCHANGED active_connections
     ELSE Escape(s, frame[s].exc)
  /\ UNCHANGED <<connected, endpoint, data, reqNo, frame, sent>>

\* ------------------------------------------------------------- fix handler
\* line 195: not all([repo_url, github_token, vulnerability, file_path])
FixMissing(d) ==
  ~(Truthy(d.repo_url) /\ Truthy(d.github_token) /\ Truthy(d.vulnerability)
    /\ Truthy(d.file_path))

\* line 193: repo_url.replace(...) is evaluated before the check of line 195 and
\* raises AttributeError when data has no repo_url
ReplaceRaises(d) == d.repo_url = None

FixReceive(s) == endpoint[s] = "fix" /\ Receive(s, FixRequests)

\* lines 193-206
FixValidate(s) ==
  /\ endpoint[s] = "fix" /\ pc[s] = "validate" /\ Free(s)
  /\ IF ReplaceRaises(data[s])
     THEN /\ Escape(s, AttributeError)
          /\ frame' = Upd(frame, s, Raise(frame[s], AttributeError))
          /\ UNCHANGED <<sent, hist, workspaces>>
     ELSE IF FixMissing(data[s])
     THEN \/ /\ connected[s]
             /\ Step(s, "receive", frame[s], Append(sent[s], MissingParamsMsg), hist[s], TRUE)
             /\ UNCHANGED <<active_connections, workspaces>>
          \/ /\ ~connected[s]
             /\ \E e \in SendErrors :
                  /\ Escape(s, e)
                  /\ frame' = Upd(frame, s, Raise(frame[s], e))
                  /\ hist' = Upd(hist, s, Failed(hist[s], "send"))
             /\ UNCHANGED <<sent, workspaces>>
     ELSE /\ SendInTry(s, InitGithubMsg, "resolve", frame[s], hist[s], workspaces, workspaces)
          /\ UNCHANGED active_connections
  /\ UNCHANGED <<connected, endpoint, data, reqNo, containers, image>>

\* lines 208-219: Github(token), get_user, get_repo, "Creating fix branch..."
FixResolve(s) ==
  /\ endpoint[s] = "fix" /\ pc[s] = "resolve" /\ Free(s)
  /\ \/ /\ Go(s, "except", Raise(frame[s], GithubError), Failed(hist[s], "resolve"))
        /\ UNCHANGED workspaces
     \/ SendInTry(s, CreatingBranchMsg, "branch", frame[s], Ran(hist[s], "resolve"),
                  workspaces, workspaces)
  /\ UNCHANGED <<active_connections, connected, endpoint, data, reqNo, containers, image>>

\* lines 221-229: branch names, the temporary directory, "Cloning repository..."
FixBranch(s) ==
  /\ endpoint[s] = "fix" /\ pc[s] = "branch" /\ Free(s)
  /\ SendInTry(s, CloningMsg, "clone", [frame[s] EXCEPT !.temp_dir = Dir(s)],
               [hist[s] EXCEPT !.ws = TRUE], EnterWith(workspaces, Dir(s)),
               ExitWith(EnterWith(workspaces, Dir(s)), Dir(s)))
  /\ UNCHANGED <<active_connections, connected, endpoint, data, reqNo, containers, image>>

\* lines 231-244
FixClone(s) ==
  /\ endpoint[s] = "fix" /\ pc[s] = "clone" /\ Free(s)
  /\ \E returncode \in {0, 128} :
       IF returncode # 0
       THEN SendInTry(s, CloneFailedMsg, "leave", frame[s], Failed(hist[s], "clone"),
                      workspaces, ExitWith(workspaces, frame[s].temp_dir))
       ELSE /\ Go(s, "checkout", frame[s], Ran(hist[s], "clone"))
            /\ UNCHANGED workspaces
  /\ UNCHANGED <<active_connections, connected, endpoint, data, reqNo, containers, image>>

\* subprocess.run(..., check=True) raises CalledProcessError on a non-zero exit;
\* with check=False the exit status is only stored in the result
RunRaises(check, returncode) == check /\ returncode # 0

\* one git command of lines 250-297, none of them followed by an await
GitStep(s, at, stage, check, next) ==
  /\ endpoint[s] = "fix" /\ pc[s] = at /\ Free(s)
  /\ \E returncode \in {0, 1} :
       IF RunRaises(check, returncode)
       THEN RaiseInWith(s, CalledProcessError, stage)
       ELSE /\ Go(s, next, frame[s],
                  IF returncode # 0 THEN Failed(hist[s], stage) ELSE Ran(hist[s], stage))
            /\ UNCHANGED workspaces
  /\ UNCHANGED <<active_connections, connected, endpoint, data, reqNo, containers, image>>

\* lines 247-253: os.chdir(temp_dir); git checkout -b new_branch, check=False
FixCheckout(s) == GitStep(s, "checkout", "checkout", FALSE, "set_url")
\* lines 256-258: git remote set-url origin, check=True
FixSetUrl(s) == GitStep(s, "set_url", "set_url", TRUE, "config")
\* lines 261-266: git config user.name / user.email, check=True
FixConfig(s) == GitStep(s, "config", "config", TRUE, "fetch")
\* lines 269-272: git fetch origin base_branch, check=True
FixFetch(s) == GitStep(s, "fetch", "fetch", TRUE, "aider")
\* lines 290-293: git add file_path, check=True
FixAdd(s) == GitStep(s, "add", "add", TRUE, "push")

\* lines 275-287: Model, InputOutput, Coder.create, coder.run
FixAider(s) ==
  /\ endpoint[s] = "fix" /\ pc[s] = "aider" /\ Free(s)
  /\ \/ RaiseInWith(s, AgentError, "aider")
     \/ /\ Go(s, "add", frame[s], Ran(hist[s], "aider"))
        /\ UNCHANGED workspaces
  /\ UNCHANGED <<active_connections, connected, endpoint, data, reqNo, containers, image>>

\* line 296: the push runs with check=True and without capture_output
PushCheck == TRUE
\* change_push.stderr: nothing is captured
PushCaptured(stderr) == None

\* lines 294-305
FixPush(s) ==
  /\ endpoint[s] = "fix" /\ pc[s] = "push" /\ Free(s)
  /\ \E returncode \in {0, 1} :
       IF RunRaises(PushCheck, returncode)
       THEN RaiseInWith(s, CalledProcessError, "push")
       ELSE IF returncode # 0
       THEN SendInTry(s, PushFailedMsg(PushCaptured(PushStderr)), "leave", frame[s],
                      Failed(hist[s], "push"), workspaces,
                      ExitWith(workspaces, frame[s].temp_dir))
       ELSE /\ Go(s, "create_pull", frame[s], Ran(hist[s], "push"))
            /\ UNCHANGED workspaces
  /\ UNCHANGED <<active_connections, connected, endpoint, data, reqNo, containers, image>>

\* lines 307-317: the first repo.create_pull, then "Creating pull request..."
FixCreatePull(s) ==
  /\ endpoint[s] = "fix" /\ pc[s] = "create_pull" /\ Free(s)
  /\ LET h == [hist[s] EXCEPT !.prCalls = @ + 1]
     IN \/ RaiseWithHist(s, GithubError, Failed(h, "create_pull"))
        \/ SendInTry(s, CreatingPrMsg, "create_pull2",
                     [frame[s] EXCEPT !.pr = PrUrl(h.prCalls)], Ran(h, "create_pull"),
                     workspaces, ExitWith(workspaces, frame[s].temp_dir))
  /\ UNCHANGED <<active_connections, connected, endpoint, data, reqNo, containers, image>>

\* the test `slack_webhook_url is not None`, which lets the empty string through
FixNotifiesNotNone(d) == d.slack_webhook_url # None

\* line 326: `if slack_webhook_url:`
FixNotifies(d) == Truthy(d.slack_webhook_url)

\* lines 319-331: the second repo.create_pull rebinds pr; then `if slack_webhook_url:`
\* sends "Sending Slack notification...", otherwise lines 346-350 send the success
FixCreatePull2(s) ==
  /\ endpoint[s] = "fix" /\ pc[s] = "create_pull2" /\ Free(s)
  /\ LET h == [hist[s] EXCEPT !.prCalls = @ + 1]
         f == [frame[s] EXCEPT !.pr = PrUrl(h.prCalls)]
         quit == ExitWith(workspaces, frame[s].temp_dir)
     IN \/ RaiseWithHist(s, GithubError, Failed(h, "create_pull2"))
        \/ IF FixNotifies(data[s])
           THEN SendInTry(s, SlackProgressMsg, "slack", f, Ran(h, "create_pull2"),
                          workspaces, quit)
           ELSE SendInTry(s, FixSuccessMsg(f.pr), "leave", f, Ran(h, "create_pull2"),
                          workspaces, quit)
  /\ UNCHANGED <<active_connections, connected, endpoint, data, reqNo, containers, image>>

\* lines 333-339 and utils.py 69-72: the post raises ValueError on a status other than 200
FixSlack(s) ==
  /\ endpoint[s] = "fix" /\ pc[s] = "slack" /\ Free(s)
  /\ LET h == [hist[s] EXCEPT !.slackCalls = @ + 1]
     IN \/ Step(s, "success", frame[s], sent[s], Ran(h, "slack"), TRUE)
        \/ Step(s, "warn", Raise(frame[s], SlackError), sent[s], Failed(h, "slack"), TRUE)
  /\ UNCHANGED <<active_connections, connected, endpoint, data, reqNo, workspaces,
                 containers, image>>

\* lines 340-344: `except Exception as slack_error`
FixWarn(s) ==
  /\ endpoint[s] = "fix" /\ pc[s] = "warn" /\ Free(s)
  /\ SendInTry(s, FixSlackFailedMsg(frame[s].exc), "success", frame[s], hist[s],
               workspaces, ExitWith(workspaces, frame[s].temp_dir))
  /\ UNCHANGED <<active_connections, connected, endpoint, data, reqNo, containers, image>>

\* lines 346-350, after the notification
FixSuccess(s) ==
  /\ endpoint[s] = "fix" /\ pc[s] = "success" /\ Free(s)
  /\ SendInTry(s, FixSuccessMsg(frame[s].pr), "leave", frame[s], hist[s],
               workspaces, ExitWith(workspaces, frame[s].temp_dir))
  /\ UNCHANGED <<active_connections, connected, endpoint, data, reqNo, containers, image>>

\* the end of the with block of line 224 (also reached by `continue`), then line 186
FixLeave(s) ==
  /\ endpoint[s] = "fix" /\ pc[s] = "leave" /\ Free(s)
  /\ workspaces' = ExitWith(workspaces, frame[s].temp_dir)
  /\ pc' = Upd(pc, s, "receive")
  /\ running' = NoSession
  /\ UNCHANGED <<active_connections, connected, endpoint, data, reqNo, frame, sent, hist,
                 containers, image>>

\* lines 352-357 and 359-360
FixExcept(s) ==
  /\ endpoint[s] = "fix" /\ pc[s] = "except" /\ Free(s)
  /\ \/ /\ connected[s]
        /\ Step(s, "receive", frame[s], Append(sent[s], ExceptionMsg(frame[s].exc)),
                hist[s], TRUE)
        /\ UNCHANGED active_connections
     \/ /\ ~connected[s]
        /\ \E e \in SendErrors :
             /\ Escape(s, e)
             /\ frame' = Upd(frame, s, Raise(frame[s], e))
             /\ hist' = Upd(hist, s, Failed(hist[s], "send"))
        /\ UNCHANGED sent
  /\ UNCHANGED <<connected, endpoint, data, reqNo, workspaces, containers, image>>

\* ----------------------------------------------------------- specification
Next ==
  \E s \in Sessions :
    \/ Connect(s) \/ ClientDisconnect(s)
    \/ ScanReceive(s) \/ ScanValidate(s) \/ ScanInit(s) \/ ScanClone(s) \/ ScanBuild(s)
    \/ ScanRun(s) \/ ScanWait(s) \/ ScanLogs(s) \/ ScanCheck(s) \/ ScanReport(s)
    \/ ScanNotify(s) \/ ScanAlert(s) \/ ScanSlackExcept(s) \/ ScanExcept(s) \/ ScanCleanup(s)
    \/ FixReceive(s) \/ FixValidate(s) \/ FixResolve(s) \/ FixBranch(s) \/ FixClone(s)
    \/ FixCheckout(s) \/ FixSetUrl(s) \/ FixConfig(s) \/ FixFetch(s) \/ FixAider(s)
    \/ FixAdd(s) \/ FixPush(s) \/ FixCreatePull(s) \/ FixCreatePull2(s) \/ FixSlack(s)
    \/ FixWarn(s) \/ FixSuccess(s) \/ FixLeave(s) \/ FixExcept(s)

Spec == Init /\ [][Next]_vars

\* ------------------------------------------- several sessions in one process
\* Both clients connect; each sends complete requests with a webhook, and the
\* scanner prints either text that is not JSON or a report with one finding.
\* A client of this specification closes its connection between two requests,
\* while the handler awaits receive_json; closing in the middle of a request is
\* explored with one session under Spec.
ConcScanRequests ==
  {d \in ScanRequests :
     d.repo_url = RepoUrl /\ d.github_token = Token /\ d.slack_webhook_url = Hook}
ConcFixRequests ==
  {d \in FixRequests :
     /\ d.repo_url = RepoUrl /\ d.github_token = Token /\ d.vulnerability = Vuln
     /\ d.file_path = FilePath /\ d.slack_webhook_url = Hook}
ConcLogTexts ==
  {t \in LogTexts : t.json = "invalid" \/ (t.hasResults /\ t.results = <<"f1">>)}

ConcScanReceive(s) == endpoint[s] = "scan" /\ Receive(s, ConcScanRequests)
ConcFixReceive(s) == endpoint[s] = "fix" /\ Receive(s, ConcFixRequests)
ConcScanLogs(s) == ScanLogsFrom(s, ConcLogTexts)
ConcClientDisconnect(s) == pc[s] = "receive" /\ ClientDisconnect(s)

InitConc == InitWith(Sessions)

NextConc ==
  \E s \in Sessions :
    \/ Connect(s) \/ ConcClientDisconnect(s)
    \/ ConcScanReceive(s) \/ ScanValidate(s) \/ ScanInit(s) \/ ScanClone(s) \/ ScanBuild(s)
    \/ ScanRun(s) \/ ScanWait(s) \/ ConcScanLogs(s) \/ ScanCheck(s) \/ ScanReport(s)
    \/ ScanNotify(s) \/ ScanAlert(s) \/ ScanSlackExcept(s) \/ ScanExcept(s) \/ ScanCleanup(s)
    \/ ConcFixReceive(s) \/ FixValidate(s) \/ FixResolve(s) \/ FixBranch(s) \/ FixClone(s)
    \/ FixCheckout(s) \/ FixSetUrl(s) \/ FixConfig(s) \/ FixFetch(s) \/ FixAider(s)
    \/ FixAdd(s) \/ FixPush(s) \/ FixCreatePull(s) \/ FixCreatePull2(s) \/ FixSlack(s)
    \/ FixWarn(s) \/ FixSuccess(s) \/ FixLeave(s) \/ FixExcept(s)

SpecConc == InitConc /\ [][NextConc]_vars

\* ------------------------------------------------------------- properties
\* the invocation of the last request received on s is over
Ended(s) == reqNo[s] > 0 /\ data[s].shape = "object" /\ pc[s] \in {"receive", "closed", "crashed"}
\* every send of the invocation found the client connected
SendsOk(s) == "send" \notin hist[s].failed
Terminal(m) == m.status \in {"success", "error"}
Terminals(s) == {i \in 1..Len(sent[s]) : Terminal(sent[s][i])}
Statuses(s) == {sent[s][i].status : i \in 1..Len(sent[s])}
LastSent(s) == sent[s][Len(sent[s])]

\* C1: every request gets exactly one success or error message, and that
\* message is the last one sent for the request
C1_OneTerminalLast ==
  \A s \in Sessions :
    Ended(s) /\ SendsOk(s) => Terminals(s) = {Len(sent[s])} /\ Len(sent[s]) > 0

MissingField(s) ==
  IF endpoint[s] = "scan"
  THEN \E k \in {"repo_url", "github_token"} : data[s][k] \in {None, ""}
  ELSE \E k \in {"repo_url", "github_token", "vulnerability", "file_path"} :
         data[s][k] \in {None, ""}

\* C2: a request with a required field missing is answered by one error message
\* and nothing else, and creates no workspace, image or container
C2_MissingFieldOnlyError ==
  \A s \in Sessions :
    Ended(s) /\ SendsOk(s) /\ MissingField(s) =>
      /\ Len(sent[s]) = 1 /\ sent[s][1].status = "error"
      /\ ~hist[s].ws /\ ~hist[s].built /\ ~hist[s].started

\* C3: while the client stays connected no failure leaves the request loop,
\* and a finished invocation has sent its success or error message
C3_FailuresBecomeErrors ==
  \A s \in Sessions :
    reqNo[s] > 0 /\ data[s].shape = "object" /\ connected[s] =>
      /\ pc[s] # "crashed"
      /\ Ended(s) => Terminals(s) # {}

\* C4: once an invocation is over, however it ended, the temporary
\* directory it created is gone
C4_WorkspaceReleased ==
  \A s \in Sessions :
    pc[s] \in {"receive", "validate", "closed", "crashed"} =>
      \A d \in workspaces : d[1] # s

C4_Witness ==
  \E s \in Sessions :
    /\ pc[s] = "receive" /\ Ended(s) /\ hist[s].ws
    /\ hist[s].failed # {} /\ frame[s].exc # NoExc

\* C5: once a scan invocation is over, the container it started and the image
\* it built are gone
C5_ScanResourcesRemoved ==
  \A s \in Sessions :
    endpoint[s] = "scan" /\ Ended(s) =>
      /\ hist[s].started => Dir(s) \notin containers
      /\ hist[s].built => image # Dir(s)

\* C6: after a failed push no pull request is created and the last message is
\* an error that carries the stderr of the push
C6_PushFailureCarriesStderr ==
  \A s \in Sessions :
    endpoint[s] = "fix" /\ Ended(s) /\ SendsOk(s) /\ "push" \in hist[s].failed =>
      /\ hist[s].prCalls = 0
      /\ Len(sent[s]) > 0 /\ LastSent(s).status = "error"
      /\ \/ LastSent(s).data = <<"error", PushStderr>>
         \/ \E i \in 1..Len(LastSent(s).message) : LastSent(s).message[i] = PushStderr

\* C7: in the fix workflow a failed webhook post is reported by a warning, no
\* error message is sent for the request, and the last message is the success
\* with the URL of the pull request
C7_FixSlackFailureIsWarning ==
  \A s \in Sessions :
    endpoint[s] = "fix" /\ "slack" \in hist[s].failed =>
      /\ "error" \notin Statuses(s)
      /\ Ended(s) /\ SendsOk(s) =>
           /\ "warning" \in Statuses(s)
           /\ Terminals(s) = {Len(sent[s])}
           /\ LastSent(s).status = "success"
           /\ LastSent(s).data = <<"pr_url", frame[s].pr>>
           /\ frame[s].pr # <<>>

C7_Witness ==
  \E s \in Sessions :
    /\ endpoint[s] = "fix" /\ "slack" \in hist[s].failed
    /\ pc[s] = "receive" /\ Ended(s) /\ SendsOk(s)
    /\ Truthy(data[s].slack_webhook_url)

\* C8: a scan with a webhook dispatches one notification for each finding of
\* the report once the success message is out
C8_OneAlertPerFinding ==
  \A s \in Sessions :
    /\ endpoint[s] = "scan" /\ Ended(s) /\ SendsOk(s)
    /\ data[s].slack_webhook_url \notin {None, ""} /\ "success" \in Statuses(s)
    => hist[s].slackCalls = Len(frame[s].logs.results)

\* C9: a request without slack_webhook_url, or with an empty one, never leads
\* to a webhook post
C9_NoTargetNoPost ==
  \A s \in Sessions :
    data[s].slack_webhook_url \in {None, ""} =>
      hist[s].slackCalls = 0 /\ "slack" \notin hist[s].ran

C9_Witness ==
  \E s \in Sessions :
    /\ pc[s] = "receive" /\ Ended(s) /\ data[s].slack_webhook_url = ""
    /\ "success" \in Statuses(s) /\ hist[s].prCalls > 0

\* C10: with the logs captured, exit code 0 or 1 takes the scan on to the
\* parsing of the report; any other code ends it with the BanditError message
\* that carries the logs, without a success message and without parsing
C10_ExitCodeDecides ==
  \A s \in Sessions :
    endpoint[s] = "scan" /\ frame[s].logs # NoLogs /\ pc[s] # "check" =>
      IF frame[s].exit_status[1] \in {0, 1}
      THEN pc[s] = "parse" \/ "parse" \in hist[s].ran \/ "results" \in hist[s].ran
      ELSE /\ "success" \notin Statuses(s)
           /\ {"parse", "results"} \cap hist[s].ran = {}
           /\ Ended(s) /\ SendsOk(s) =>
                /\ Terminals(s) = {Len(sent[s])}
                /\ LastSent(s).status = "error"
                /\ LastSent(s).message = <<"Bandit scan failed: ", frame[s].logs>>
                /\ LastSent(s).data = <<"error_type", "BanditError">>

C10_Witness ==
  \E s \in Sessions :
    /\ endpoint[s] = "scan" /\ pc[s] = "receive" /\ Ended(s) /\ SendsOk(s)
    /\ frame[s].logs \in LogTexts /\ frame[s].exit_status = <<2>>
    /\ LastSent(s).status = "error"

\* C11: when the captured report is a JSON object with a results array, the
\* success message carries exactly that array as its vulnerabilities, and a
\* finished scan whose sends went out has sent that success message
C11_PayloadIsResults ==
  \A s \in Sessions :
    endpoint[s] = "scan" =>
      /\ \A i \in 1..Len(sent[s]) :
           sent[s][i].status = "success" /\ frame[s].logs.hasResults =>
             /\ frame[s].logs.json = "object"
             /\ sent[s][i].data[1] = "vulnerabilities"
             /\ sent[s][i].data[2] = frame[s].logs.results
      /\ /\ Ended(s) /\ SendsOk(s) /\ "logs" \in hist[s].ran
         /\ frame[s].exit_status[1] \in {0, 1} /\ frame[s].logs.json = "object"
         => "success" \in Statuses(s)

C11_Witness ==
  \E s \in Sessions :
    /\ endpoint[s] = "scan" /\ pc[s] = "receive" /\ Ended(s)
    /\ frame[s].logs.json = "object" /\ frame[s].logs.results = <<"f2", "f1">>
    /\ \E i \in 1..Len(sent[s]) :
         sent[s][i].status = "success" /\ sent[s][i].data[2] = <<"f2", "f1">>

\* C12: exit code 0 or 1 with captured output that is not JSON ends the scan
\* with an error whose data is the raw output; no success message is sent
C12_MalformedReportIsError ==
  \A s \in Sessions :
    /\ endpoint[s] = "scan" /\ frame[s].logs.json = "invalid"
    /\ frame[s].exit_status[1] \in {0, 1} /\ pc[s] \notin {"check", "parse"}
    => /\ "success" \notin Statuses(s)
       /\ Ended(s) /\ SendsOk(s) =>
            /\ Terminals(s) = {Len(sent[s])}
            /\ LastSent(s).status = "error"
            /\ LastSent(s).data[1] = "error"
            /\ LastSent(s).data[2] = frame[s].logs

C12_Witness ==
  \E s \in Sessions :
    /\ endpoint[s] = "scan" /\ pc[s] = "receive" /\ Ended(s) /\ SendsOk(s)
    /\ frame[s].logs.json = "invalid" /\ frame[s].exit_status = <<1>>
    /\ LastSent(s).status = "error"

\* C13: while the client is connected the handler is never left: whatever the
\* request held, the session returns to receive_json
C13_SessionSurvivesRequests ==
  \A s \in Sessions :
    connected[s] /\ data[s].shape \in {"none", "object"} =>
      pc[s] \notin {"closed", "crashed"}

\* C14: a connection is in the registry from connect on, and is out of it
\* once its handler has ended, whatever ended it
C14_RegistryHoldsLiveSessions ==
  \A s \in Sessions :
    /\ pc[s] \notin {"idle", "closed", "crashed"} => s \in active_connections
    /\ pc[s] \in {"idle", "closed", "crashed"} => s \notin active_connections

\* C17: a fix invocation whose push succeeded calls create_pull once, and the
\* success message carries the URL that call returned
C17_OnePullRequestCall ==
  \A s \in Sessions :
    /\ endpoint[s] = "fix" /\ Ended(s) /\ SendsOk(s)
    /\ "push" \in hist[s].ran \ hist[s].failed
    => /\ hist[s].prCalls = 1
       /\ "success" \in Statuses(s) =>
            LastSent(s).status = "success" /\ LastSent(s).data = <<"pr_url", PrUrl(1)>>

\* the stages of the two workflows, in the order of the code
FixStages ==
  <<"resolve", "clone", "checkout", "set_url", "config", "fetch", "aider", "add", "push",
    "create_pull", "create_pull2", "slack">>
ScanStages == <<"from_env", "clone", "build", "run", "wait", "logs", "scan", "parse", "slack">>
StagesOf(s) == IF endpoint[s] = "fix" THEN FixStages ELSE ScanStages
GitCommands == {"clone", "checkout", "set_url", "config", "fetch", "add", "push"}
After(s, stage) ==
  {StagesOf(s)[j] : j \in {k \in 1..Len(StagesOf(s)) :
      \E i \in 1..Len(StagesOf(s)) : StagesOf(s)[i] = stage /\ i < k}}

\* C18: once a git command has exited non-zero no later stage of the
\* invocation runs, and the invocation ends with an error message
C18_GitFailureEndsInvocation ==
  \A s \in Sessions :
    \A g \in GitCommands \cap hist[s].failed :
      /\ After(s, g) \cap hist[s].ran = {}
      /\ Ended(s) /\ SendsOk(s) => Len(sent[s]) > 0 /\ LastSent(s).status = "error"

IsProgress(m) == m.status = "progress"
\* the texts of the progress messages sent for the request, in order
Announced(s) ==
  [i \in 1..Len(SelectSeq(sent[s], IsProgress)) |-> SelectSeq(sent[s], IsProgress)[i].message[1]]
IsPrefix(p, q) == Len(p) <= Len(q) /\ \A i \in 1..Len(p) : p[i] = q[i]

\* C19 as claimed: each of initializing, cloning, scanning, reporting and
\* notifying has its own progress message before its work starts
C19_EveryStageAnnounced ==
  \A s \in Sessions :
    endpoint[s] = "scan" =>
      /\ "from_env" \in hist[s].ran => Len(Announced(s)) >= 1
      /\ "clone" \in hist[s].ran => Len(Announced(s)) >= 2
      /\ "build" \in hist[s].ran => Len(Announced(s)) >= 3
      /\ {"parse", "results"} \cap hist[s].ran # {} => Len(Announced(s)) >= 4
      /\ hist[s].slackCalls > 0 => Len(Announced(s)) >= 5

\* C19 amended: initializing, cloning, scanning and (with a webhook) notifying
\* are announced in this order, each before its work starts; the parsing and
\* reporting of the results has no announcement of its own
C19_StagesAnnouncedButReporting ==
  \A s \in Sessions :
    endpoint[s] = "scan" =>
      /\ IsPrefix(Announced(s),
                  <<"Initializing scan...", "Cloning repository...",
                    "Running security scan...", "Sending Slack notification...">>)
      /\ "from_env" \in hist[s].ran => Len(Announced(s)) >= 1
      /\ "clone" \in hist[s].ran => Len(Announced(s)) >= 2
      /\ "build" \in hist[s].ran => Len(Announced(s)) >= 3
      /\ hist[s].slackCalls > 0 => Len(Announced(s)) >= 4
      /\ Len(Announced(s)) >= 4 =>
           data[s].slack_webhook_url \notin {None, ""} /\ "success" \in Statuses(s)

C19_Witness ==
  \E s \in Sessions :
    /\ endpoint[s] = "scan" /\ pc[s] = "receive" /\ Ended(s)
    /\ hist[s].slackCalls = 2 /\ Len(Announced(s)) = 4

\* C20: a success message implies that the stages before it succeeded: for a
\* scan the clone, the scanner (exit code 0 or 1) and the JSON parse; for a
\* fix the resolution, the clone, the push and the pull-request creation
C20_SuccessNeedsEveryStage ==
  \A s \in Sessions :
    "success" \in Statuses(s) =>
      IF endpoint[s] = "scan"
      THEN /\ {"from_env", "clone", "build", "run", "wait", "logs", "scan", "parse"}
                \subseteq hist[s].ran
           /\ {"from_env", "clone", "build", "run", "wait", "logs", "scan", "parse",
               "results"} \cap hist[s].failed = {}
           /\ frame[s].exit_status[1] \in {0, 1}
           /\ frame[s].logs.json = "object"
      ELSE /\ {"resolve", "clone", "push", "create_pull", "create_pull2"} \subseteq hist[s].ran
           /\ {"resolve", "clone", "push", "create_pull", "create_pull2"}
                \cap hist[s].failed = {}

C20_Witness ==
  \E s \in Sessions :
    /\ endpoint[s] = "scan" /\ pc[s] = "receive" /\ Ended(s)
    /\ "success" \in Statuses(s) /\ frame[s].exit_status = <<1>>

\* positions at which a handler is in a blocking call of subprocess, docker,
\* PyGithub or aider
ExternalCalls ==
  {"init", "clone", "build", "run", "wait", "logs", "resolve", "checkout", "set_url",
   "config", "fetch", "aider", "add", "push", "create_pull", "create_pull2"}

\* C15: while a session is in its external calls, every other connected
\* session with a handler in progress can be scheduled
C15_ExternalCallsDoNotStall ==
  \A s, t \in Sessions :
    /\ s # t /\ pc[s] \in ExternalCalls
    /\ connected[t] /\ pc[t] \notin {"idle", "closed", "crashed"}
    => Free(t)

\* C16: every message that went out on a connection was produced by the
\* handler of that connection
C16_MessagesStayOnOwnConnection ==
  \A s \in Sessions :
    \A i \in 1..Len(sent[s]) : sent[s][i].origin = s

C16_Witness ==
  \E s, t \in Sessions :
    /\ s # t /\ {s, t} \subseteq active_connections
    /\ Len(sent[s]) > 1 /\ Len(sent[t]) > 1
    /\ pc[s] \notin {"idle", "receive", "validate", "closed", "crashed"}
    /\ pc[t] \notin {"idle", "receive", "validate", "closed", "crashed"}

\* C21: the cleanup of a scan invocation calls container.remove on no container
\* but the one this invocation started, and an invocation that built the image
\* and ended before starting a container has removed that image
C21_CleanupRemovesOwnContainerOnly ==
  \A s \in Sessions :
    endpoint[s] = "scan" /\ Ended(s) =>
      /\ \A c \in hist[s].removeCalls : hist[s].started /\ c = Dir(s)
      /\ hist[s].built /\ ~hist[s].started => hist[s].imageRemoved

\* C22: with several sessions scanning, a container is started from the image
\* built from the workspace of its own invocation, and from the start of the
\* container until its logs are captured the tag custom-bandit:latest still
\* names that image: no other session has rebuilt or removed it
C22_ContainerRunsOwnImage ==
  \A s \in Sessions :
    endpoint[s] = "scan" =>
      /\ hist[s].started => hist[s].ranImage = Dir(s)
      /\ pc[s] \in {"wait", "logs"} => image = Dir(s)

C22_Witness ==
  \E s, t \in Sessions :
    /\ s # t /\ endpoint[s] = "scan" /\ endpoint[t] = "scan"
    /\ pc[s] = "check" /\ "logs" \in hist[s].ran /\ "logs" \notin hist[s].failed
    /\ hist[s].ranImage = Dir(s) /\ image = Dir(s)
    /\ hist[t].built /\ pc[t] \notin {"idle", "receive", "closed", "crashed"}

====
